---- MODULE Spec2Model ----
(***************************************************************************)
(* A model of the Home Projects progress server (src/server.js): the three *)
(* record tables with their upsert routes, the photo catalog and the       *)
(* uploads directory with the upload / delete / download routes, and the   *)
(* aggregate GET /api/progress.                                            *)
(*                                                                         *)
(* Node runs one handler at a time, so a synchronous handler is one        *)
(* action.  The upload handler awaits sharp, and the archiver reads the    *)
(* files after the download handler has returned, so those two are split   *)
(* at the points where the event loop can run another handler.             *)
(* The store and the files outlive the process: a process that has ended   *)
(* is started again over what it left.                                     *)
(***************************************************************************)
EXTENDS Integers, Sequences, FiniteSets, Bags, TLC

VARIABLES
    checklist_items,   \* table checklist_items: rows [id, checked, updated_at]
    notes,             \* table notes: rows [id, content, updated_at]
    project_status,    \* table project_status: rows [id, status, updated_at]
    photos,            \* table photos: rows [id, slot_id, filename, original_name, uploaded_at]
    sqlite_sequence,   \* AUTOINCREMENT counter of photos: the largest id ever assigned
    files,             \* the names of the files in uploadsDir
    now,               \* the wall clock, in milliseconds
    uploads,           \* the upload requests in flight (awaiting sharp or its continuation): a bag
    nRequests,         \* how many requests have been received
    downloads,         \* the archives being streamed
    running,           \* whether the server process is alive
    crashed,           \* history: the requests whose handling ended the process
    res                \* the response the last step sent, NoResponse when it sent none

vars == <<checklist_items, notes, project_status, photos, sqlite_sequence,
          files, now, uploads, nRequests, downloads, running, crashed, res>>

records == <<checklist_items, notes, project_status>>
catalog == <<photos, sqlite_sequence>>

----------------------------------------------------------------------------
(* Bounds of the model *)

MaxClock == 2       \* the clock runs over 0 .. MaxClock milliseconds
MsPerSec == 2       \* milliseconds per second of CURRENT_TIMESTAMP (scaled down)
MaxRequests == 3    \* the requests received

(* The inputs the requests are drawn from *)

NoResponse == [op |-> "none", req |-> "", status |-> 0, type |-> "", body |-> ""]

RecordIds == {"p1", "p2"}
CheckedInputs == BOOLEAN
ContentInputs == {"", "buy latch"}
StatusInputs == {"pending", "done"}
SlotIds == {"p1-dishwasher-latch", "attic"}
PhotoIds == 1..MaxRequests

----------------------------------------------------------------------------
(* The store's clock: CURRENT_TIMESTAMP has one-second resolution. *)

CURRENT_TIMESTAMP == now \div MsPerSec

(* A request arrives. *)
Receive ==
    /\ running
    /\ nRequests < MaxRequests
    /\ nRequests' = nRequests + 1

(* The process ends, by an exception that nothing catches or by a kill, and *)
(* every request in flight ends with it.  The store and the files stay.    *)
ProcessExit(request) ==
    /\ running' = FALSE
    /\ crashed' = crashed \cup {request}
    /\ uploads' = EmptyBag
    /\ downloads' = {}
    /\ res' = NoResponse

(* res.json(body), after res.status(status) *)
Json(op, req, status, body) ==
    [op |-> op, req |-> req, status |-> status, type |-> "application/json", body |-> body]

(* a plain INSERT into a table that does not constrain id *)
InsertPlain(table, row) == table \cup {row}

(* INSERT INTO t (id, ...) VALUES (...) ON CONFLICT(id) DO UPDATE SET ...:    *)
(* every column but the key is set by the update, so the row is replaced.  *)
Upsert(table, row) ==
    IF \E r \in table : r.id = row.id
    THEN {r \in table : r.id # row.id} \cup {row}
    ELSE table \cup {row}

(* the flag stored as 1 whatever was sent *)
AlwaysOne(checked) == 1

(* checked ? 1 : 0 *)
Truthy(checked) == IF checked THEN 1 ELSE 0

PostChecklist(id, checked) ==
    /\ Receive
    /\ checklist_items' = Upsert(checklist_items,
            [id |-> id, checked |-> Truthy(checked), updated_at |-> CURRENT_TIMESTAMP])
    /\ res' = Json("checklist", [id |-> id, checked |-> checked], 200, [success |-> TRUE])
    /\ UNCHANGED <<notes, project_status, catalog, files, now, uploads, downloads, running, crashed>>

PostNotes(id, content) ==
    /\ Receive
    /\ notes' = Upsert(notes,
            [id |-> id, content |-> content, updated_at |-> CURRENT_TIMESTAMP])
    /\ res' = Json("notes", [id |-> id, content |-> content], 200, [success |-> TRUE])
    /\ UNCHANGED <<checklist_items, project_status, catalog, files, now, uploads, downloads, running, crashed>>

PostStatus(id, status) ==
    /\ Receive
    /\ project_status' = Upsert(project_status,
            [id |-> id, status |-> status, updated_at |-> CURRENT_TIMESTAMP])
    /\ res' = Json("status", [id |-> id, status |-> status], 200, [success |-> TRUE])
    /\ UNCHANGED <<checklist_items, notes, catalog, files, now, uploads, downloads, running, crashed>>

----------------------------------------------------------------------------
(* SELECT ... ORDER BY uploaded_at: the rows in every order the clause      *)
(* allows.  uploaded_at has one-second resolution and SQL leaves the order  *)
(* of rows with equal keys open.                                           *)

RECURSIVE RowOrders(_)
RowOrders(rows) ==
    IF rows = {} THEN {<<>>}
    ELSE UNION {{<<r>> \o p : p \in RowOrders(rows \ {r})} : r \in rows}

OrderedAsc(s) == \A i, j \in DOMAIN s : i < j => s[i].uploaded_at <= s[j].uploaded_at
OrderedDesc(s) == \A i, j \in DOMAIN s : i < j => s[i].uploaded_at >= s[j].uploaded_at

(* the snapshot's scan taken oldest first *)
ScanOldestFirst(rows) == {s \in RowOrders(rows) : OrderedAsc(s)}

OrderByUploadedAtAsc(rows) == {s \in RowOrders(rows) : OrderedAsc(s)}
OrderByUploadedAtDesc(rows) == {s \in RowOrders(rows) : OrderedDesc(s)}

(* GET /api/progress *)

PhotoView(photo) ==
    [id |-> photo.id, filename |-> photo.filename,
     originalName |-> photo.original_name, uploadedAt |-> photo.uploaded_at]

photosBySlot(scan) ==
    [slot \in {scan[i].slot_id : i \in DOMAIN scan} |->
        LET mine == SelectSeq(scan, LAMBDA photo : photo.slot_id = slot)
        IN  [i \in DOMAIN mine |-> PhotoView(mine[i])]]

(* item.checked === true, which no stored integer satisfies *)
checklistViewStrict(rows) == [id \in {r.id : r \in rows} |-> FALSE]

(* acc[item.id] = item.checked === 1, and the like for notes and statuses *)
checklistView(rows) ==
    [id \in {r.id : r \in rows} |-> (CHOOSE r \in rows : r.id = id).checked = 1]
notesView(rows) ==
    [id \in {r.id : r \in rows} |-> (CHOOSE r \in rows : r.id = id).content]
statusesView(rows) ==
    [id \in {r.id : r \in rows} |-> (CHOOSE r \in rows : r.id = id).status]

ProgressBody(scan) ==
    [checklist |-> checklistView(checklist_items),
     notes |-> notesView(notes),
     statuses |-> statusesView(project_status),
     photos |-> photosBySlot(scan)]

GetProgress ==
    /\ Receive
    /\ \E scan \in OrderByUploadedAtDesc(photos) :
           res' = Json("progress", "", 200, ProgressBody(scan))
    /\ UNCHANGED <<records, catalog, files, now, uploads, downloads, running, crashed>>

----------------------------------------------------------------------------
(* POST /api/photos/:slotId *)

fileSize == 10 * 1024 * 1024
allowedTypes == {"image/jpeg", "image/png", "image/gif", "image/webp", "image/heic", "image/heif"}

Mimetypes == {"image/jpeg", "text/plain"}
Sizes == {fileSize, fileSize + 1}
Images == {"ok", "corrupt"}
Files == [mimetype : Mimetypes, size : Sizes, originalname : {"IMG_0001.HEIC"}, image : Images]
(* the parts of the multipart body named "photo": none or one *)
Multiparts == {<<>>} \cup {<<f>> : f \in Files}

(* the name made of the millisecond alone *)
FilenameOfMillis(slotId, timestamp) == "photo-" \o ToString(timestamp) \o ".jpg"

(* the name with the extension of another format *)
FilenamePng(slotId, timestamp) == slotId \o "-" \o ToString(timestamp) \o ".png"

(* `${slotId}-${timestamp}.jpg` *)
Filename(slotId, timestamp) == slotId \o "-" \o ToString(timestamp) \o ".jpg"

(* a filter that lets every declared type through *)
AcceptAnyType(file) == TRUE

(* multer: fileFilter, then limits.fileSize while the part is read. *)
fileFilter(file) == file.mimetype \in allowedTypes
WithinLimits(file) == file.size <= fileSize

(* No error-handling middleware is installed, so an error that multer      *)
(* passes to next(err) is answered by Express's default handler: the       *)
(* error carries no status, which makes it a 500 with an HTML body.        *)
DefaultErrorHandler(op, req, message) ==
    [op |-> op, req |-> req, status |-> 500, type |-> "text/html", body |-> message]

(* upload.single('photo'), then the handler body up to the await, where the *)
(* name is fixed from Date.now().                                          *)
PostPhotos(slotId, parts) ==
    /\ Receive
    /\ IF parts # <<>> /\ ~fileFilter(parts[1])
       THEN /\ res' = DefaultErrorHandler("upload", slotId,
                         "Invalid file type. Only images are allowed.")
            /\ UNCHANGED uploads
       ELSE IF parts # <<>> /\ ~WithinLimits(parts[1])
       THEN /\ res' = DefaultErrorHandler("upload", slotId, "File too large")
            /\ UNCHANGED uploads
       ELSE IF parts = <<>>
       THEN /\ res' = Json("upload", slotId, 400, [error |-> "No file uploaded"])
            /\ UNCHANGED uploads
       ELSE /\ uploads' = uploads (+) SetToBag(
                   {[slotId |-> slotId, filename |-> Filename(slotId, now),
                     originalname |-> parts[1].originalname, image |-> parts[1].image,
                     stage |-> "sharp"]})
            /\ res' = NoResponse
    /\ UNCHANGED <<records, catalog, files, now, downloads, running, crashed>>

(* sharp(...).toFile(filepath) ends: the file is written, or the image     *)
(* cannot be decoded and the promise rejects.  What a failed toFile leaves *)
(* at filepath is not decided by this code: nothing or a partial file.     *)
SharpToFile(u) ==
    /\ running
    /\ BagIn(u, uploads) /\ u.stage = "sharp"
    /\ u.image = "ok"
    /\ files' = files \cup {u.filename}
    /\ uploads' = (uploads (-) SetToBag({u})) (+) SetToBag({[u EXCEPT !.stage = "written"]})
    /\ res' = NoResponse
    /\ UNCHANGED <<records, catalog, now, nRequests, downloads, running, crashed>>

SharpFails(u) ==
    /\ running
    /\ BagIn(u, uploads) /\ u.stage = "sharp"
    /\ u.image = "corrupt"
    /\ \E partial \in BOOLEAN :
           files' = IF partial THEN files \cup {u.filename} ELSE files
    /\ uploads' = uploads (-) SetToBag({u})
    /\ res' = Json("upload", u.slotId, 500, [error |-> "Failed to upload photo"])
    /\ UNCHANGED <<records, catalog, now, nRequests, downloads, running, crashed>>

(* the id taken as one more than the largest id now in the table *)
MaxRowidPlusOne ==
    IF photos = {} THEN 1
    ELSE (CHOOSE m \in {photo.id : photo \in photos} :
              \A photo \in photos : photo.id <= m) + 1

(* id INTEGER PRIMARY KEY AUTOINCREMENT: one more than the largest id the   *)
(* table has ever held, which the store keeps in sqlite_sequence.          *)
Autoincrement == sqlite_sequence + 1

(* After the await: INSERT INTO photos, and the answer. *)
UploadInsert(u) ==
    /\ running
    /\ BagIn(u, uploads) /\ u.stage = "written"
    /\ LET lastInsertRowid == Autoincrement IN
         /\ photos' = photos \cup
                {[id |-> lastInsertRowid, slot_id |-> u.slotId, filename |-> u.filename,
                  original_name |-> u.originalname, uploaded_at |-> CURRENT_TIMESTAMP]}
         /\ sqlite_sequence' = lastInsertRowid
         /\ res' = Json("upload", u.slotId, 200,
                     [success |-> TRUE,
                      photo |-> [id |-> lastInsertRowid, filename |-> u.filename,
                                 originalName |-> u.originalname]])
    /\ uploads' = uploads (-) SetToBag({u})
    /\ UNCHANGED <<records, files, now, nRequests, downloads, running, crashed>>

----------------------------------------------------------------------------
(* DELETE /api/photos/:photoId *)

(* the row is deleted and the file is left where it is *)
KeepFile(filepath) == files

(* if (fs.existsSync(filepath)) fs.unlinkSync(filepath) *)
Unlink(filepath) == files \ {filepath}

DeletePhoto(photoId) ==
    /\ Receive
    /\ IF \E photo \in photos : photo.id = photoId
       THEN LET photo == CHOOSE photo \in photos : photo.id = photoId IN
              /\ files' = Unlink(photo.filename)
              /\ photos' = {p \in photos : p.id # photoId}
              /\ res' = Json("delete", photoId, 200, [success |-> TRUE])
       ELSE /\ res' = Json("delete", photoId, 404, [error |-> "Photo not found"])
            /\ UNCHANGED <<photos, files>>
    /\ UNCHANGED <<records, sqlite_sequence, now, uploads, downloads, running, crashed>>

(* The handler runs to its end without yielding, so only the end of the    *)
(* process can cut it short.  Its calls, in order: the SELECT, the unlink   *)
(* of the file if it exists, the DELETE of the row.                        *)
DeleteCalls == <<"get", "unlinkSync", "run">>

DeleteRequest(photoId) == "DELETE /api/photos/" \o ToString(photoId)

(* the row deleted first and the file after it *)
RowFirst(photo, n) ==
    [files |-> IF n >= 3 THEN Unlink(photo.filename) ELSE files,
     photos |-> IF n >= 2 THEN {p \in photos : p.id # photo.id} ELSE photos]

(* the files and the catalog after the first n calls of a delete of photo *)
DeleteProgress(photo, n) ==
    [files |-> IF n >= 2 THEN Unlink(photo.filename) ELSE files,
     photos |-> IF n >= 3 THEN {p \in photos : p.id # photo.id} ELSE photos]

(* The process is killed inside a delete, after the n-th call. *)
DeleteCrash(photoId, n) ==
    /\ Receive
    /\ \E photo \in photos : photo.id = photoId
    /\ LET photo == CHOOSE photo \in photos : photo.id = photoId IN
         /\ files' = DeleteProgress(photo, n).files
         /\ photos' = DeleteProgress(photo, n).photos
    /\ ProcessExit(DeleteRequest(photoId) \o " after " \o DeleteCalls[n])
    /\ UNCHANGED <<records, sqlite_sequence, now>>

----------------------------------------------------------------------------
(* GET /api/photos/:slotId/download *)

slotNames ==
    [slotId \in {"p1-dishwasher-latch", "p2-humidifier", "p3-sharkbite-connection",
                 "p4-laundry-current", "p4-laundry-planned", "p5-sink-faucet"} |->
        CASE slotId = "p1-dishwasher-latch" -> "dishwasher-door-latch"
          [] slotId = "p2-humidifier" -> "furnace-humidifier"
          [] slotId = "p3-sharkbite-connection" -> "fridge-sharkbite-connection"
          [] slotId = "p4-laundry-current" -> "laundry-room-current"
          [] slotId = "p4-laundry-planned" -> "laundry-room-planned"
          [] slotId = "p5-sink-faucet" -> "bathroom-sink-faucet"]

projectNames ==
    [slotId \in {"p1-dishwasher-latch", "p2-humidifier", "p3-sharkbite-connection",
                 "p4-laundry-current", "p4-laundry-planned", "p5-sink-faucet"} |->
        CASE slotId = "p1-dishwasher-latch" -> "Project1-Dishwasher"
          [] slotId = "p2-humidifier" -> "Project2-Humidifier"
          [] slotId = "p3-sharkbite-connection" -> "Project3-FridgeWater"
          [] slotId \in {"p4-laundry-current", "p4-laundry-planned"} -> "Project4-LaundryRoom"
          [] slotId = "p5-sink-faucet" -> "Project5-BathroomSink"]

(* slotNames[slotId] || slotId *)
friendlySlotName(slotId) ==
    IF slotId \in DOMAIN slotNames THEN slotNames[slotId] ELSE slotId

(* `${projectNames[slotId] || 'HomeProject'}-photos.zip` *)
zipFilename(slotId) ==
    (IF slotId \in DOMAIN projectNames THEN projectNames[slotId] ELSE "HomeProject")
        \o "-photos.zip"

(* the entry named by the index as forEach gives it, from 0 *)
friendlyFilenameFromZero(slotId, index) ==
    friendlySlotName(slotId) \o "-photo-" \o ToString(index) \o ".jpg"

(* `${friendlySlotName}-photo-${index + 1}.jpg`, index counting from 0 *)
friendlyFilename(slotId, index) ==
    friendlySlotName(slotId) \o "-photo-" \o ToString(index + 1) \o ".jpg"

(* every row queued, whether its file exists or not *)
QueuedAll(slotId, rows) ==
    {[filepath |-> rows[i].filename, name |-> friendlyFilename(slotId, i - 1)] :
        i \in DOMAIN rows}

(* photos.forEach: archive.file(filepath, {name}) for the files that exist *)
QueuedFiles(slotId, rows) ==
    {[filepath |-> rows[i].filename, name |-> friendlyFilename(slotId, i - 1)] :
        i \in {k \in DOMAIN rows : rows[k].filename \in files}}

(* a check that never finds the result empty *)
NeverEmpty(rows) == FALSE

(* photos.length === 0 *)
NoPhotosFound(rows) == Len(rows) = 0

(* The handler: the query, the headers, the files queued, finalize().  The *)
(* archiver stats and reads the files after the handler has returned.      *)
Download(slotId) ==
    /\ Receive
    /\ \E rows \in OrderByUploadedAtAsc({photo \in photos : photo.slot_id = slotId}) :
         IF NoPhotosFound(rows)
         THEN /\ res' = Json("download", slotId, 404, [error |-> "No photos found"])
              /\ UNCHANGED downloads
         ELSE /\ downloads' = downloads \cup
                     {[slotId |-> slotId, photos |-> rows,
                       statQueue |-> QueuedFiles(slotId, rows),
                       entriesCount |-> Cardinality(QueuedFiles(slotId, rows)),
                       queue |-> {}, entries |-> {}, closed |-> FALSE]}
              /\ res' = NoResponse
    /\ UNCHANGED <<records, catalog, files, now, uploads, running, crashed>>

(* The archiver's lstat of a queued file: a file that is gone is dropped   *)
(* with a 'warning' event, which has no listener.                          *)
ArchiveStat(d, e) ==
    /\ running
    /\ d \in downloads /\ e \in d.statQueue
    /\ downloads' = (downloads \ {d}) \cup
           {[d EXCEPT !.statQueue = @ \ {e},
                      !.queue = IF e.filepath \in files THEN @ \cup {e} ELSE @,
                      !.entriesCount = IF e.filepath \in files THEN @ ELSE @ - 1]}
    /\ res' = NoResponse
    /\ UNCHANGED <<records, catalog, files, now, uploads, nRequests, running, crashed>>

(* the file moved into the archive: read, then removed *)
ArchiveMove(d, e) ==
    /\ running
    /\ d \in downloads /\ e \in d.queue
    /\ e.filepath \in files
    /\ downloads' = (downloads \ {d}) \cup
           {[d EXCEPT !.queue = @ \ {e}, !.entries = @ \cup {e}]}
    /\ files' = files \ {e.filepath}
    /\ res' = NoResponse
    /\ UNCHANGED <<records, catalog, now, uploads, nRequests, running, crashed>>

(* The archiver reads a file it has stat'ed into the archive. *)
ArchiveAppend(d, e) ==
    /\ running
    /\ d \in downloads /\ e \in d.queue
    /\ e.filepath \in files
    /\ downloads' = (downloads \ {d}) \cup
           {[d EXCEPT !.queue = @ \ {e}, !.entries = @ \cup {e}]}
    /\ res' = NoResponse
    /\ UNCHANGED <<records, catalog, files, now, uploads, nRequests, running, crashed>>

(* The file went away after lstat: the read fails and the archive emits    *)
(* 'error'.  The listener answers res.status(500).json(...).  Once the     *)
(* headers are sent, res.json throws when it sets a header, and nothing    *)
(* catches it: the process ends.  The headers are sent with the first      *)
(* bytes piped; whether the failing entry's own header has been piped yet  *)
(* is a matter of timing.  While the 500 can still be sent it ends the     *)
(* answer, under the Content-Type the handler had set, and the archive is  *)
(* given up; a client that is gone receives nothing.                       *)
DownloadRequest(slotId) == "GET /api/photos/" \o slotId \o "/download"

ArchiveError(d, e) ==
    /\ running
    /\ d \in downloads /\ e \in d.queue
    /\ e.filepath \notin files
    /\ \E headersSent \in (IF d.entries # {} THEN {TRUE} ELSE BOOLEAN) :
         IF headersSent
         THEN ProcessExit(DownloadRequest(d.slotId))
         ELSE /\ res' = IF d.closed THEN NoResponse
                        ELSE [op |-> "download", req |-> d.slotId, status |-> 500,
                              type |-> "application/zip; charset=utf-8",
                              body |-> [error |-> "Failed to create zip"]]
              /\ downloads' = downloads \ {d}
              /\ UNCHANGED <<running, crashed, uploads>>
    /\ UNCHANGED <<records, catalog, files, now, nRequests>>

(* Every queued file is handled: the archive ends and so does the answer. *)
ArchiveFinalize(d) ==
    /\ running
    /\ d \in downloads /\ d.statQueue = {} /\ d.queue = {}
    /\ downloads' = downloads \ {d}
    /\ res' = IF d.closed THEN NoResponse
              ELSE [op |-> "download", req |-> d.slotId, status |-> 200,
                    type |-> "application/zip",
                    body |-> [filename |-> zipFilename(d.slotId), entries |-> d.entries]]
    /\ UNCHANGED <<records, catalog, files, now, uploads, nRequests, running, crashed>>

(* The client closes the connection while the archive is streamed: the     *)
(* handler listens for no 'close', so the archiver goes on with what it    *)
(* has queued, and nothing more reaches the client.                        *)
ClientAbort(d) ==
    /\ running
    /\ d \in downloads /\ ~d.closed
    /\ downloads' = (downloads \ {d}) \cup {[d EXCEPT !.closed = TRUE]}
    /\ res' = NoResponse
    /\ UNCHANGED <<records, catalog, files, now, uploads, nRequests, running, crashed>>

(* The process is started again: the store and the files are as they were. *)
Restart ==
    /\ ~running
    /\ running' = TRUE
    /\ res' = NoResponse
    /\ UNCHANGED <<records, catalog, files, now, uploads, nRequests, downloads, crashed>>

----------------------------------------------------------------------------
(* Time passes. *)

Tick ==
    /\ now < MaxClock
    /\ now' = now + 1
    /\ res' = NoResponse
    /\ UNCHANGED <<records, catalog, files, uploads, nRequests, downloads, running, crashed>>

----------------------------------------------------------------------------

Init ==
    /\ checklist_items = {}
    /\ notes = {}
    /\ project_status = {}
    /\ photos = {}
    /\ sqlite_sequence = 0
    /\ files = {}
    /\ now = 0
    /\ uploads = EmptyBag
    /\ nRequests = 0
    /\ downloads = {}
    /\ running = TRUE
    /\ crashed = {}
    /\ res = NoResponse

(* A start over a data directory that earlier runs have filled: a row in   *)
(* each record table, and two photos of one slot, uploaded in different    *)
(* seconds, each with its file.  Tables are created IF NOT EXISTS, so the  *)
(* rows are as they were left.                                             *)
StoredPhotos ==
    {[id |-> 1, slot_id |-> "p1-dishwasher-latch",
      filename |-> Filename("p1-dishwasher-latch", 0),
      original_name |-> "IMG_0001.HEIC", uploaded_at |-> 0],
     [id |-> 2, slot_id |-> "p1-dishwasher-latch",
      filename |-> Filename("p1-dishwasher-latch", MaxClock),
      original_name |-> "IMG_0001.HEIC", uploaded_at |-> MaxClock \div MsPerSec]}

InitExport ==
    /\ checklist_items = {[id |-> "p1", checked |-> 1, updated_at |-> 0]}
    /\ notes = {[id |-> "p1", content |-> "buy latch", updated_at |-> 0]}
    /\ project_status = {[id |-> "p1", status |-> "done", updated_at |-> 0]}
    /\ photos = StoredPhotos
    /\ sqlite_sequence = Cardinality(StoredPhotos)
    /\ files = {photo.filename : photo \in StoredPhotos}
    /\ now = MaxClock
    /\ uploads = EmptyBag
    /\ nRequests = 0
    /\ downloads = {}
    /\ running = TRUE
    /\ crashed = {}
    /\ res = NoResponse

NextRecords ==
    \/ \E id \in RecordIds, checked \in CheckedInputs : PostChecklist(id, checked)
    \/ \E id \in RecordIds, content \in ContentInputs : PostNotes(id, content)
    \/ \E id \in RecordIds, status \in StatusInputs : PostStatus(id, status)
    \/ GetProgress
    \/ Tick

NextPhotos ==
    \/ \E slotId \in SlotIds, parts \in Multiparts : PostPhotos(slotId, parts)
    \/ \E u \in BagToSet(uploads) : SharpToFile(u)
    \/ \E u \in BagToSet(uploads) : SharpFails(u)
    \/ \E u \in BagToSet(uploads) : UploadInsert(u)
    \/ \E photoId \in PhotoIds : DeletePhoto(photoId)
    \/ \E slotId \in SlotIds : Download(slotId)
    \/ \E d \in downloads : \E e \in d.statQueue : ArchiveStat(d, e)
    \/ \E d \in downloads : \E e \in d.queue : ArchiveAppend(d, e)
    \/ \E d \in downloads : \E e \in d.queue : ArchiveError(d, e)
    \/ \E d \in downloads : ArchiveFinalize(d)
    \/ Restart
    \/ GetProgress
    \/ Tick

NextExport ==
    \/ \E slotId \in SlotIds : Download(slotId)
    \/ \E d \in downloads : \E e \in d.statQueue : ArchiveStat(d, e)
    \/ \E d \in downloads : \E e \in d.queue : ArchiveAppend(d, e)
    \/ \E d \in downloads : \E e \in d.queue : ArchiveError(d, e)
    \/ \E d \in downloads : ArchiveFinalize(d)
    \/ \E d \in downloads : ClientAbort(d)
    \/ \E photoId \in PhotoIds : DeletePhoto(photoId)
    \/ \E photoId \in PhotoIds, n \in DOMAIN DeleteCalls : DeleteCrash(photoId, n)
    \/ Restart

Next == NextRecords \/ NextPhotos

(* The record routes and GET /api/progress. *)
SpecRecords == Init /\ [][NextRecords]_vars

(* The photo routes and GET /api/progress. *)
SpecPhotos == Init /\ [][NextPhotos]_vars

(* Every route. *)
Spec == Init /\ [][Next]_vars

(* Exports and deletes over stored photos, with the process killed inside  *)
(* a delete and started again.                                             *)
SpecExport == InitExport /\ [][NextExport]_vars

----------------------------------------------------------------------------
(* The claims *)

RecordTables == <<checklist_items, notes, project_status>>

(* C1: in each of the three record tables there is at most one row per id,  *)
(* after any sequence of upserts.                                          *)
C1_OneRowPerId ==
    \A t \in 1..3 : \A r1, r2 \in RecordTables[t] : r1.id = r2.id => r1 = r2

(* an upsert has just written id p1 of project_status, at a later second    *)
(* than another id's row, and the table holds two ids                       *)
C1_Witness ==
    /\ res.op = "status" /\ res.req.id = "p1"
    /\ {r.id : r \in project_status} = {"p1", "p2"}
    /\ \E r1, r2 \in project_status : r1.updated_at < r2.updated_at
    /\ nRequests = MaxRequests

(* C2: an upsert of (id, v) makes the value read back for id be v, in one   *)
(* row (last write wins); and when the value read back for id was already   *)
(* v, the upsert leaves what is read back of the whole table as it was      *)
(* (idempotence).                                                          *)
C2_LastWriteWins ==
    [][/\ \A id \in RecordIds, v \in CheckedInputs :
            PostChecklist(id, v) =>
                /\ Cardinality({r \in checklist_items' : r.id = id}) = 1
                /\ checklistView(checklist_items')[id] = v
                /\ (\E r \in checklist_items : r.id = id /\ checklistView(checklist_items)[id] = v)
                      => checklistView(checklist_items') = checklistView(checklist_items)
       /\ \A id \in RecordIds, v \in ContentInputs :
            PostNotes(id, v) =>
                /\ Cardinality({r \in notes' : r.id = id}) = 1
                /\ notesView(notes')[id] = v
                /\ (\E r \in notes : r.id = id /\ notesView(notes)[id] = v)
                      => notesView(notes') = notesView(notes)
       /\ \A id \in RecordIds, v \in StatusInputs :
            PostStatus(id, v) =>
                /\ Cardinality({r \in project_status' : r.id = id}) = 1
                /\ statusesView(project_status')[id] = v
                /\ (\E r \in project_status : r.id = id /\ statusesView(project_status)[id] = v)
                      => statusesView(project_status') = statusesView(project_status)
      ]_vars

(* the third request is an upsert of checklist p1 to false, and p1 is the   *)
(* only row of the table, read back false, written in a later second        *)
C2_Witness ==
    /\ res.op = "checklist" /\ res.req = [id |-> "p1", checked |-> FALSE]
    /\ checklist_items = {[id |-> "p1", checked |-> 0, updated_at |-> 1]}
    /\ notes = {} /\ project_status = {}
    /\ nRequests = MaxRequests

(* C3: a DELETE that answers 200 leaves no catalog row with that id and no  *)
(* file at the filename the row recorded; an id once assigned and deleted   *)
(* never has a row again, and a DELETE of an id without a row answers 404.  *)
C3_DeleteCleansBoth ==
    [][/\ \A photoId \in PhotoIds :
            DeletePhoto(photoId) =>
                IF \E photo \in photos : photo.id = photoId
                THEN /\ res'.status = 200
                     /\ ~\E photo \in photos' : photo.id = photoId
                     /\ \A photo \in photos : photo.id = photoId => photo.filename \notin files'
                ELSE /\ res'.status = 404
                     /\ res'.type = "application/json"
       /\ \A photoId \in PhotoIds :
            (photoId <= sqlite_sequence /\ ~\E photo \in photos : photo.id = photoId)
                => ~\E photo \in photos' : photo.id = photoId
      ]_vars

(* a DELETE has just answered 404 for an id that was assigned before: the   *)
(* repeated delete                                                         *)
C3_Witness ==
    /\ res.op = "delete" /\ res.status = 404
    /\ res.req <= sqlite_sequence
    /\ nRequests = MaxRequests

SlotPhotos(slotId) == {photo \in photos : photo.slot_id = slotId}

(* the entries <friendly>-photo-1 .. <friendly>-photo-N of the rows, entry k *)
(* holding the file of the k-th row                                        *)
NamedInOrder(friendly, rows) ==
    {[filepath |-> rows[k].filename,
      name |-> friendly \o "-photo-" \o ToString(k) \o ".jpg"] : k \in 1..Len(rows)}

Friendly(slotId) ==
    IF slotId = "p1-dishwasher-latch" THEN "dishwasher-door-latch" ELSE slotId

(* C4: a download of a slot whose N >= 1 photos all have their file takes   *)
(* the N rows of the slot in ascending uploaded_at and queues exactly the   *)
(* entries <friendly>-photo-1 .. N, entry k for the k-th row; and an        *)
(* archive that ends with none of its N files found missing holds exactly   *)
(* these N entries.                                                        *)
C4_ExportComplete ==
    [][/\ \A slotId \in SlotIds :
            (/\ Download(slotId)
             /\ SlotPhotos(slotId) # {}
             /\ \A photo \in SlotPhotos(slotId) : photo.filename \in files)
            => \E d \in downloads' :
                 /\ d.slotId = slotId
                 /\ Len(d.photos) = Cardinality(SlotPhotos(slotId))
                 /\ {d.photos[k] : k \in 1..Len(d.photos)} = SlotPhotos(slotId)
                 /\ \A i, j \in 1..Len(d.photos) :
                        i < j => d.photos[i].uploaded_at <= d.photos[j].uploaded_at
                 /\ d.statQueue = NamedInOrder(Friendly(slotId), d.photos)
                 /\ d.entriesCount = Len(d.photos)
                 /\ d.queue = {} /\ d.entries = {}
       /\ \A d \in downloads :
            (ArchiveFinalize(d) /\ d.entriesCount = Len(d.photos))
            => /\ res'.status = 200 /\ res'.type = "application/zip"
               /\ res'.body.entries = NamedInOrder(Friendly(d.slotId), d.photos)
               /\ Cardinality(res'.body.entries) = Len(d.photos)
      ]_vars

(* an archive of two entries has just been delivered for the mapped slot *)
C4_Witness ==
    /\ res.op = "download" /\ res.status = 200
    /\ res.req = "p1-dishwasher-latch"
    /\ {e.name : e \in res.body.entries} =
           {"dishwasher-door-latch-photo-1.jpg", "dishwasher-door-latch-photo-2.jpg"}
    /\ Cardinality(SlotPhotos("p1-dishwasher-latch")) = 2

(* C5: a download of a slot without catalog photos answers 404 and starts   *)
(* no archive; no archive is ever built from an empty query result.         *)
C5_EmptySlotNotFound ==
    [][/\ \A slotId \in SlotIds :
            (Download(slotId) /\ SlotPhotos(slotId) = {})
            => /\ res'.status = 404
               /\ res'.type = "application/json"
               /\ downloads' = downloads
       /\ \A d \in downloads' : Len(d.photos) >= 1
      ]_vars

(* a download of the unmapped slot has just answered 404 while the other    *)
(* slot has a photo                                                        *)
C5_Witness ==
    /\ res.op = "download" /\ res.status = 404 /\ res.req = "attic"
    /\ SlotPhotos("p1-dishwasher-latch") # {}
    /\ downloads = {}

TenMiB == 10 * 1024 * 1024
AllowList == {"image/jpeg", "image/png", "image/gif", "image/webp", "image/heic", "image/heif"}

(* C6: an upload whose part is larger than 10 MiB or whose declared type is *)
(* outside the allow-list starts no normalization and leaves the files and  *)
(* the catalog as they were.                                               *)
C6_RejectedBeforeNormalization ==
    [][\A slotId \in SlotIds, parts \in Multiparts :
            (/\ PostPhotos(slotId, parts)
             /\ parts # <<>>
             /\ parts[1].size > TenMiB \/ parts[1].mimetype \notin AllowList)
            => /\ uploads' = uploads
               /\ files' = files
               /\ photos' = photos /\ sqlite_sequence' = sqlite_sequence
               /\ res'.status >= 400
      ]_vars

(* an oversized upload has just been refused while a photo is stored *)
C6_Witness ==
    /\ res.op = "upload" /\ res.type = "text/html" /\ res.body = "File too large"
    /\ photos # {} /\ files # {}

(* C7: an upload refused for a missing file, an unsupported type or an      *)
(* oversized part is answered with a 4xx status and a JSON body {error}.    *)
C7_ValidationErrorsAre400 ==
    [][\A slotId \in SlotIds, parts \in Multiparts :
            (/\ PostPhotos(slotId, parts)
             /\ \/ parts = <<>>
                \/ parts[1].size > TenMiB
                \/ parts[1].mimetype \notin AllowList)
            => /\ res'.status \in 400..499
               /\ res'.type = "application/json"
               /\ DOMAIN res'.body = {"error"}
      ]_vars

(* what GET /api/progress can show under photos[slotId] for a catalog *)
ListsOf(rows, slotId) ==
    {IF slotId \in DOMAIN photosBySlot(scan) THEN photosBySlot(scan)[slotId] ELSE <<>> :
        scan \in OrderByUploadedAtDesc(rows)}

(* C8: an upload that succeeds adds exactly one catalog row, for its slot,  *)
(* with the id it answers and the filename <slotId>-<millis>.jpg of a       *)
(* millisecond not after now; what the progress view lists for any other   *)
(* slot is unchanged, and for a slot that had no photos it lists exactly    *)
(* the one entry with the answered id and filename.                        *)
C8_UploadRoundTrip ==
    [][\A u \in BagToSet(uploads) :
            UploadInsert(u) =>
              /\ res'.status = 200
              /\ \E row \in photos' :
                   /\ row \notin photos
                   /\ photos' = photos \cup {row}
                   /\ row.slot_id = u.slotId
                   /\ row.id = res'.body.photo.id
                   /\ row.filename = res'.body.photo.filename
                   /\ \E millis \in 0..now :
                         row.filename = u.slotId \o "-" \o ToString(millis) \o ".jpg"
                   /\ SlotPhotos(u.slotId) = {} =>
                         ListsOf(photos', u.slotId) =
                            {<<[id |-> res'.body.photo.id,
                                filename |-> res'.body.photo.filename,
                                originalName |-> res'.body.photo.originalName,
                                uploadedAt |-> row.uploaded_at]>>}
              /\ \A slotId \in SlotIds \ {u.slotId} :
                   ListsOf(photos', slotId) = ListsOf(photos, slotId)
      ]_vars

(* an upload to the mapped slot has just succeeded as its first photo,      *)
(* while the other slot holds a photo                                       *)
C8_Witness ==
    /\ res.op = "upload" /\ res.status = 200 /\ res.req = "p1-dishwasher-latch"
    /\ Cardinality(SlotPhotos("p1-dishwasher-latch")) = 1
    /\ SlotPhotos("attic") # {}

(* C9: every answer of GET /api/progress is the store as it is: each record *)
(* table as the mapping from the ids that have a row to the row's value,    *)
(* and under each slot exactly the photos whose catalog row exists.         *)
C9_SnapshotIsCurrent ==
    res.op = "progress" =>
        /\ res.status = 200
        /\ DOMAIN res.body.checklist = {r.id : r \in checklist_items}
        /\ \A r \in checklist_items : res.body.checklist[r.id] = (r.checked = 1)
        /\ DOMAIN res.body.notes = {r.id : r \in notes}
        /\ \A r \in notes : res.body.notes[r.id] = r.content
        /\ DOMAIN res.body.statuses = {r.id : r \in project_status}
        /\ \A r \in project_status : res.body.statuses[r.id] = r.status
        /\ DOMAIN res.body.photos = {photo.slot_id : photo \in photos}
        /\ \A slotId \in DOMAIN res.body.photos :
              LET list == res.body.photos[slotId] IN
                /\ Len(list) = Cardinality(SlotPhotos(slotId))
                /\ {list[i] : i \in 1..Len(list)} =
                      {[id |-> photo.id, filename |-> photo.filename,
                        originalName |-> photo.original_name,
                        uploadedAt |-> photo.uploaded_at] : photo \in SlotPhotos(slotId)}

(* a snapshot taken as the third request shows a checked item and a photo *)
C9_Witness ==
    /\ res.op = "progress"
    /\ nRequests = MaxRequests
    /\ \E id \in DOMAIN res.body.checklist : res.body.checklist[id]
    /\ DOMAIN res.body.photos # {}

(* C10: every list of a snapshot is in descending uploadedAt, and the rows  *)
(* every download takes are in ascending uploaded_at.                      *)
C10_Ordering ==
    /\ res.op = "progress" =>
          \A slotId \in DOMAIN res.body.photos :
            \A i, j \in DOMAIN res.body.photos[slotId] :
              i < j => res.body.photos[slotId][i].uploadedAt
                          >= res.body.photos[slotId][j].uploadedAt
    /\ \A d \in downloads :
          \A i, j \in DOMAIN d.photos :
              i < j => d.photos[i].uploaded_at <= d.photos[j].uploaded_at

(* a snapshot lists two photos of one slot that were stored in different    *)
(* seconds, the newer first                                                *)
C10_Witness ==
    /\ res.op = "progress"
    /\ \E slotId \in DOMAIN res.body.photos :
          /\ Len(res.body.photos[slotId]) = 2
          /\ res.body.photos[slotId][1].uploadedAt > res.body.photos[slotId][2].uploadedAt

(* C11: a delete runs its calls in the order SELECT, unlink (a missing file *)
(* is passed over), DELETE of the row.  A delete cut short by the end of    *)
(* the process removes no row but its own, and when that row is removed the *)
(* file it recorded is gone: at worst the row is left without its file.  A  *)
(* later delete of an id whose delete was cut short after the unlink, the   *)
(* row still there and the file gone, answers 200 and removes the row.      *)
C11_DeleteOrderSurvivesCrash ==
    [][/\ \A photoId \in PhotoIds, n \in 1..3 :
            DeleteCrash(photoId, n) =>
                /\ ~running'
                /\ files' \subseteq files
                /\ photos' \subseteq photos
                /\ \A photo \in photos \ photos' :
                      photo.id = photoId /\ photo.filename \notin files'
                /\ \A photo \in photos :
                      (photo.id = photoId /\ photo.filename \in files')
                          => (photo \in photos' /\ files' = files)
       /\ \A photoId \in PhotoIds :
            (/\ DeletePhoto(photoId)
             /\ \E photo \in photos : photo.id = photoId /\ photo.filename \notin files)
            => /\ res'.status = 200
               /\ res'.type = "application/json"
               /\ ~\E photo \in photos' : photo.id = photoId
               /\ files' = files
      ]_vars

(* the delete of photo 1 was cut short after the unlink, the process was    *)
(* started again, and a second delete of photo 1 has just answered 200:     *)
(* the row is gone, and photo 2 has its row and its file                    *)
C11_Witness ==
    /\ running
    /\ crashed = {"DELETE /api/photos/1 after unlinkSync"}
    /\ res.op = "delete" /\ res.req = 1 /\ res.status = 200
    /\ {photo.id : photo \in photos} = {2}
    /\ Cardinality(files) = 1
    /\ nRequests = 2

(* C12: every stored filename is <slotId>-<millis>.jpg for the row's slot   *)
(* and a millisecond not after now; two catalog rows, or a row and an       *)
(* upload in flight, or two uploads in flight, that have one filename are  *)
(* of one slot: uploads to different slots never collide.                  *)
C12_FilenameBySlotAndMillis ==
    /\ \A photo \in photos :
          \E millis \in 0..now :
              photo.filename = photo.slot_id \o "-" \o ToString(millis) \o ".jpg"
    /\ \A u \in BagToSet(uploads) :
          \E millis \in 0..now :
              u.filename = u.slotId \o "-" \o ToString(millis) \o ".jpg"
    /\ \A p1, p2 \in photos : p1.filename = p2.filename => p1.slot_id = p2.slot_id
    /\ \A p1 \in photos, u \in BagToSet(uploads) :
          p1.filename = u.filename => p1.slot_id = u.slotId
    /\ \A u1, u2 \in BagToSet(uploads) : u1.filename = u2.filename => u1.slotId = u2.slotId

(* three uploads of one millisecond are stored: two to one slot, sharing    *)
(* their filename, and one to the other slot under a name of its own        *)
C12_Witness ==
    /\ Cardinality(photos) = 3
    /\ \E p1, p2, p3 \in photos :
          /\ p1 # p2 /\ p1.filename = p2.filename
          /\ p1.filename = "p1-dishwasher-latch-0.jpg"
          /\ p3.slot_id = "attic" /\ p3.filename = "attic-0.jpg"
    /\ files = {"p1-dishwasher-latch-0.jpg", "attic-0.jpg"}

(* C13: an upload whose normalization fails is answered with a 500 and a    *)
(* JSON body, inserts no catalog row, and leaves no file at the filename    *)
(* it was writing to.                                                      *)
C13_FailureLeavesNoFile ==
    [][\A u \in BagToSet(uploads) :
            SharpFails(u) =>
                /\ res'.status \in 500..599
                /\ res'.type = "application/json"
                /\ photos' = photos /\ sqlite_sequence' = sqlite_sequence
                /\ u.filename \notin files'
      ]_vars

(* C14: a download of a slot with catalog photos, whether their files exist *)
(* or not, is not refused: it takes the rows in ascending uploaded_at and   *)
(* queues, for exactly the rows whose file exists, the entry named by the   *)
(* row's place in that order.  A queued file found missing by the archiver  *)
(* is dropped without an answer and the archive goes on.  The archive       *)
(* delivered holds entries of these rows only, each under the name of its   *)
(* row's place, and every row whose file is still there is in it.           *)
C14_ExportSkipsMissing ==
    [][/\ \A slotId \in SlotIds :
            (Download(slotId) /\ SlotPhotos(slotId) # {})
            => /\ res' = NoResponse
               /\ running'
               /\ \E d \in downloads' :
                    /\ d.slotId = slotId
                    /\ {d.photos[k] : k \in 1..Len(d.photos)} = SlotPhotos(slotId)
                    /\ Len(d.photos) = Cardinality(SlotPhotos(slotId))
                    /\ \A i, j \in 1..Len(d.photos) :
                           i < j => d.photos[i].uploaded_at <= d.photos[j].uploaded_at
                    /\ d.statQueue =
                           {e \in NamedInOrder(Friendly(slotId), d.photos) : e.filepath \in files}
                    /\ d.queue = {} /\ d.entries = {}
       /\ \A d \in downloads : \A e \in d.statQueue :
            (ArchiveStat(d, e) /\ e.filepath \notin files)
            => /\ res' = NoResponse
               /\ running'
               /\ \E d2 \in downloads' :
                    /\ d2.slotId = d.slotId /\ d2.photos = d.photos
                    /\ d2.entries = d.entries /\ d2.queue = d.queue
                    /\ d2.statQueue = d.statQueue \ {e}
       /\ \A d \in downloads :
            (ArchiveFinalize(d) /\ ~d.closed)
            => /\ res'.status = 200 /\ res'.type = "application/zip"
               /\ res'.body.entries \subseteq NamedInOrder(Friendly(d.slotId), d.photos)
               /\ {e \in NamedInOrder(Friendly(d.slotId), d.photos) : e.filepath \in files}
                      \subseteq res'.body.entries
      ]_vars

(* the slot has two catalog photos and the file of the older one is gone,   *)
(* lost by a delete cut short before the export was asked for: the archive  *)
(* delivered holds the newer photo alone, as photo-2                        *)
C14_Witness ==
    /\ res.op = "download" /\ res.status = 200 /\ res.type = "application/zip"
    /\ crashed = {"DELETE /api/photos/1 after unlinkSync"}
    /\ nRequests = 2
    /\ Cardinality(SlotPhotos("p1-dishwasher-latch")) = 2
    /\ res.body.entries =
          {[filepath |-> "p1-dishwasher-latch-" \o ToString(MaxClock) \o ".jpg",
            name |-> "dishwasher-door-latch-photo-2.jpg"]}

(* a step of an export: the handler, the archiver's stat and read of a      *)
(* queued file, its failure, its end, and the client closing the connection *)
ExportStep ==
    \/ \E slotId \in SlotIds : Download(slotId)
    \/ \E d \in downloads : \E e \in d.statQueue : ArchiveStat(d, e)
    \/ \E d \in downloads : \E e \in d.queue : ArchiveAppend(d, e)
    \/ \E d \in downloads : \E e \in d.queue : ArchiveError(d, e)
    \/ \E d \in downloads : ArchiveFinalize(d)
    \/ \E d \in downloads : ClientAbort(d)

(* C15: no step of an export, whether the export completes, fails or is     *)
(* aborted by the client, changes the photo catalog, the files or the three *)
(* record tables.                                                          *)
C15_ExportOnlyReads ==
    [][ExportStep =>
            /\ photos' = photos /\ sqlite_sequence' = sqlite_sequence
            /\ files' = files
            /\ checklist_items' = checklist_items
            /\ notes' = notes
            /\ project_status' = project_status
      ]_vars

(* the client has closed the connection of an export that has read one      *)
(* photo into the archive and has the other still queued; the catalog, the  *)
(* files and the records are as they were stored                            *)
C15_Witness ==
    /\ \E d \in downloads :
          /\ d.closed
          /\ Cardinality(d.entries) = 1
          /\ Cardinality(d.queue) = 1
    /\ photos = StoredPhotos
    /\ files = {photo.filename : photo \in StoredPhotos}
    /\ checklist_items # {} /\ notes # {} /\ project_status # {}

(* C16: an error of the archive, raised after the handler has set the       *)
(* headers and piped the archive to the response, ends that export and      *)
(* leaves the process running.                                             *)
C16_ArchiveErrorDoesNotCrash ==
    [][\A d \in downloads : \A e \in d.queue :
            ArchiveError(d, e) => (running' /\ d \notin downloads')
      ]_vars

(* C17: every id in the catalog is at most the largest id assigned so far,  *)
(* which no step lowers; an upload that succeeds is given an id above it,   *)
(* so above every id assigned before, those of deleted photos included,     *)
(* and no two rows have one id.                                            *)
C17_IdsStrictlyIncrease ==
    [][/\ \A photo \in photos' : photo.id <= sqlite_sequence'
       /\ sqlite_sequence' >= sqlite_sequence
       /\ \A p1, p2 \in photos' : p1.id = p2.id => p1 = p2
       /\ \A u \in BagToSet(uploads) :
            UploadInsert(u) =>
                /\ res'.status = 200
                /\ res'.body.photo.id > sqlite_sequence
                /\ \A photo \in photos : res'.body.photo.id > photo.id
                /\ sqlite_sequence' = res'.body.photo.id
                /\ \E row \in photos' \ photos : row.id = res'.body.photo.id
      ]_vars

(* photo 1 was uploaded and deleted, and the upload after it has just been  *)
(* given id 2: the catalog holds that row alone                            *)
C17_Witness ==
    /\ res.op = "upload" /\ res.status = 200
    /\ res.body.photo.id = 2
    /\ {photo.id : photo \in photos} = {2}
    /\ nRequests = 3

(* C18: no step of an export faults, whenever a file of the slot goes       *)
(* missing: the step leaves the process running and answers no 500.         *)
C18_MissingBlobToleratedAnytime ==
    [][ExportStep => (running' /\ res'.status < 500)]_vars

(* C19: while no request has ended the process, every catalog row has its   *)
(* file, after any interleaving of uploads and deletes.                     *)
C19_NoDanglingRow ==
    crashed = {} => \A photo \in photos : photo.filename \in files

(* C20: every archive delivered has at least one entry. *)
C20_ArchiveNeverEmpty ==
    (res.op = "download" /\ res.status = 200) => res.body.entries # {}

====
